---------------------------- MODULE Spec2Model ----------------------------
(***************************************************************************)
(* Model of src/fuzzers/generic_minimizer.py: the byte-diff minimizer      *)
(* (CGenericMinimizer) and the line-span minimizer (CLineMinimizer).       *)
(*                                                                         *)
(* A file is the sequence of its bytes.  The target program and the        *)
(* external crash detector are the environment: a run of the target on a   *)
(* candidate file yields a termination code and, when a crash-path is      *)
(* configured, possibly marker files.                                      *)
(***************************************************************************)
EXTENDS Integers, Sequences, FiniteSets, TLC

(* ------------------------------ bounds --------------------------------- *)
\* largest number of lines of a .diff file
MaxDiff == 2
\* largest NIGHTMARE_ITERATION of a byte-diff run
MaxStart == 4
\* largest number of lines of the file given to the line minimizer
MaxLines == 3
\* largest configured lines-to-rip (a number of lines, from 1)
MaxRip == 2
\* largest input of the default-settings runs (20 lines are the fewest for
\* which 10% of the file is more than one line, 30 for more than two)
MaxDefaultLines == 30

(* ----------------------------- values ---------------------------------- *)
\* the offsets and the byte values of the files of a byte-diff run
Offsets == {0, 1, 2}
Bytes == {0, 1}
\* the content bytes of the lines given to the line minimizer
LineBytes == {1, 2}
\* self.signal = None: no 'signal' directive in the configuration
NoSignal == -1
\* self.crash_path = None / a configured crash-path directory
NoPath == "None"
SomePath == "/crashes"
\* the newline byte
NL == 10
\* "no such file"
NoFile == <<-1>>
\* ret = None: the target has not been run
NoRet == -2

\* nfp_process.RETURN_SIGNALS: termination code -> signal name.  The table
\* is imported; the codes are the shell's 128+signal codes of the fatal
\* signals.
RETURN_SIGNALS == {132, 133, 134, 136, 138, 139, 143}

Range(s) == {s[x] : x \in DOMAIN s}

SeqsUpTo(S, n) == UNION {[1..m -> S] : m \in 0..n}

RECURSIVE Join(_)
\* "".join(lines)
Join(ls) == IF ls = <<>> THEN <<>> ELSE Head(ls) \o Join(Tail(ls))

RECURSIVE ReadLines(_, _)
\* file.readlines(): every line ends after its "\n"; a last line without
\* one is a line too.  cur is the line read so far.
ReadLines(f, cur) ==
  IF f = <<>> THEN (IF cur = <<>> THEN <<>> ELSE <<cur>>)
  ELSE IF Head(f) = NL THEN <<Append(cur, NL)>> \o ReadLines(Tail(f), <<>>)
  ELSE ReadLines(Tail(f), Append(cur, Head(f)))

\* the strip_empty_lines filter of CLineMinimizer.read_template
StripEmpty(l) == SelectSeq(l, LAMBDA line : line \notin {<<NL>>, <<13, NL>>})

\* CLineMinimizer.read_template
ReadTemplate(f) == StripEmpty(ReadLines(f, <<>>))

\* CGenericMinimizer.read_diff: comment lines and lines that are not a
\* number are dropped, the others appended in file order (a line of the
\* .diff file is modelled by its number, or -1 when it is not a number)
ReadDiff(dl) == SelectSeq(dl, LAMBDA x : x >= 0)

\* CGenericMinimizer.read_crash: the crashing file's byte at every diff
\* offset
ReadCrash(cf, d) == [pos \in Range(d) |-> cf[pos + 1]]

(* ----------------------------- state ----------------------------------- *)
VARIABLES
  pc,            \* where the run is: "rc_open" ... "rc_done" in
                 \* read_configuration; "for", "exec", "while", "after" in
                 \* do_try; "done"; "raised"
  exc,           \* the exception that ended the run ("none" if none)
  template,      \* self.template
  diff,          \* self.diff
  crash,         \* self.crash
  i,             \* the outer round (byte-diff) / the for index (line)
  n,             \* the length of range(...) of the running for loop
  j,             \* byte-diff: elements of self.diff the inner for has consumed
  iteration,     \* iteration
  minimized,     \* minimized / self.minimized
  buf,           \* byte-diff: the candidate buffer
  lines,         \* line: the candidate line list
  temp_file,     \* content of the candidate temp file, NoFile if there is none
  hashed,        \* contents of the files <outdir>/<sha1(content)><ext>
  last_minimized,\* content of <outdir>/last_minimized<ext>, NoFile if absent
  current_line,  \* current_line
  loops,         \* loops
  total_lines,   \* total_lines
  orig_lines,    \* orig_lines
  start_at,      \* NIGHTMARE_ITERATION (0 if unset)
  signal,        \* self.signal
  crash_path,    \* self.crash_path
  line_per_line, \* self.line_per_line
  lines_to_rip,  \* self.lines_to_rip
  lines_percent, \* self.lines_percent
  oracle,        \* environment: which candidates make the target crash
  hit,           \* environment: the code the target ends with when it crashes
  orig_template, \* the template as loaded
  orig_diff,     \* self.diff as loaded
  orig_crash,    \* self.crash as loaded
  executed,      \* history: iteration indexes whose trial ran the target
  seen,          \* history: <<code, markers left>> of every run of the target
  rip,           \* history: the values lines_to_rip took in the trials so far
  run,           \* 1 for the first invocation of main, 2 for the second
  prev,          \* how the first invocation ended
  mode,          \* main's mode: "generic" or "line"
  pre_command,   \* self.pre_command is not None
  pre_iterations,\* self.pre_iterations
  post_command,  \* self.post_command is not None
  post_iterations,\* self.post_iterations
  config,        \* the configuration file: is there a file, has it the
                 \* section, the directives of the section and their values
  profile,       \* the fields read_configuration has assigned so far
  ret,           \* ret of the last run of the target
  markers,       \* whether that run left marker files in the crash-path
  pre_ran,       \* history: iteration indexes of the trials that ran pre_command
  post_ran       \* history: iteration indexes of the trials that ran post_command

cfgvars == <<mode, signal, crash_path, line_per_line, lines_to_rip,
            lines_percent, pre_command, pre_iterations, post_command,
            post_iterations, config, profile>>
trialvars == <<ret, markers, pre_ran, post_ran>>
envvars == <<oracle, hit>>
origvars == <<orig_template, orig_diff, orig_crash, orig_lines>>
bytevars == <<diff, crash, j, buf, run, prev>>
linevars == <<lines, current_line, loops, total_lines, last_minimized, rip>>
vars == <<pc, exc, template, i, n, iteration, minimized, temp_file, hashed,
          start_at, executed, seen, trialvars, cfgvars, envvars, origvars,
          bytevars, linevars>>

(* --------------------------- environment ------------------------------- *)
\* Whether the target crashes on a file, for each kind of target.
Triggers(kind, f) ==
  CASE kind = "always" -> {TRUE}
    [] kind = "never"  -> {FALSE}
    [] kind = "head1"  -> {f # <<>> /\ f[1] = 1}
    [] kind = "has1"   -> {1 \in Range(f)}
    [] kind = "has12"  -> {1 \in Range(f) /\ 2 \in Range(f)}
    [] OTHER           -> BOOLEAN

Deterministic == oracle # "nondet"

\* TimeoutCommand.run: the target's termination code
RetOf(trig) == IF trig THEN hit ELSE 0

\* whether the external detector left marker files in the crash-path
MarkersOf(trig) == trig /\ crash_path # NoPath


(* --------------- CGenericMinimizer.read_configuration ------------------ *)
\* the directives of the section that the model follows
Directives ==
  {"pre-command", "pre-iterations", "post-command", "post-iterations",
   "command", "extension", "minimize-timeout", "signal",
   "debugging-interface"}

\* the values minimize-timeout and pre-iterations can have in the file;
\* every other directive has one value when it is there (all are strings)
TimeoutValues == {"auto", "30"}
IntervalValues == {"2", "two"}
ValueOf(d) ==
  CASE d = "post-iterations" -> "2"
    [] d = "signal"          -> "77"
    [] OTHER                 -> "set"

\* the sections a configuration file can hold: any subset of the directives
Sections ==
  {[d \in D |-> CASE d = "minimize-timeout" -> tv
                  [] d = "pre-iterations"   -> iv
                  [] OTHER                  -> ValueOf(d)] :
     D \in SUBSET Directives, tv \in TimeoutValues, iv \in IntervalValues}

\* a Python value with its type
PyStr(x) == <<"str", x>>
PyInt(x) == <<"int", x>>
PyNone == <<"NoneType", "None">>
IsStr(v) == v[1] = "str"

\* int(s) succeeds on a string of digits and raises ValueError otherwise
IsNumber(x) == x \in {"2", "30", "77"}
IntOf(x) == CASE x = "2" -> 2 [] x = "30" -> 30 [] x = "77" -> 77

\* parser.get(self.section, d) returns a value / raises NoOptionError
Has(d) == d \in DOMAIN config.opts
Get(d) == config.opts[d]

\* self.<field> = v
Put(f, k, v) == [x \in DOMAIN f \cup {k} |-> IF x = k THEN v ELSE f[x]]

\* try: int(parser.get(..., d)) except: default
IntOrDefault(d, default) ==
  IF Has(d) /\ IsNumber(Get(d)) THEN IntOf(Get(d)) ELSE default

NoProfile == [x \in {} |-> PyNone]

\* the variables of the two minimizers before minimize() is called
Unstarted ==
  /\ template = <<>> /\ orig_template = <<>> /\ orig_lines = 0
  /\ diff = <<>> /\ crash = <<>> /\ orig_diff = <<>> /\ orig_crash = <<>>
  /\ i = 0 /\ n = 0 /\ j = 0 /\ iteration = 0 /\ minimized = FALSE
  /\ buf = <<>> /\ lines = <<>> /\ temp_file = NoFile /\ hashed = {}
  /\ last_minimized = NoFile /\ current_line = 0 /\ loops = 0
  /\ total_lines = 0 /\ rip = {} /\ start_at = 0
  /\ executed = {} /\ seen = {} /\ ret = NoRet /\ markers = FALSE
  /\ pre_ran = {} /\ post_ran = {}
  /\ run = 1 /\ prev = <<"none", "none", FALSE, {}>>
  /\ oracle = "never" /\ hit = 139

\* the constructor is entered: nothing is assigned yet, the file may be
\* missing, or lack the section, or hold any section
InitConf ==
  /\ pc = "rc_open" /\ exc = "none"
  /\ mode \in {"generic", "line"}
  /\ config \in
       {[file |-> FALSE, section |-> FALSE, opts |-> NoProfile],
        [file |-> TRUE, section |-> FALSE, opts |-> NoProfile]}
       \cup {[file |-> TRUE, section |-> TRUE, opts |-> o] : o \in Sections}
  /\ profile = NoProfile
  /\ pre_command = FALSE /\ pre_iterations = 1
  /\ post_command = FALSE /\ post_iterations = 1
  /\ signal = NoSignal
  /\ crash_path = NoPath /\ line_per_line = FALSE
  /\ lines_to_rip = 1 /\ lines_percent = 10
  /\ Unstarted

ConfFrame ==
  UNCHANGED <<template, i, n, iteration, minimized, temp_file, hashed,
              start_at, executed, seen, trialvars, envvars, origvars,
              bytevars, linevars, mode, config, crash_path, line_per_line,
              lines_to_rip, lines_percent>>

\* lines 132-141: no file, or no such section: Exception
RcOpenFails ==
  /\ pc = "rc_open"
  /\ ~config.file \/ ~config.section
  /\ pc' = "raised" /\ exc' = "Exception"
  /\ UNCHANGED <<profile, pre_command, pre_iterations, post_command,
                 post_iterations, signal>>
  /\ ConfFrame

\* lines 132-141: the file is parsed and has the section
RcOpen ==
  /\ pc = "rc_open"
  /\ config.file /\ config.section
  /\ pc' = "rc_hooks"
  /\ UNCHANGED <<exc, profile, pre_command, pre_iterations, post_command,
                 post_iterations, signal>>
  /\ ConfFrame

\* lines 143-165: the hooks and their intervals, None and 1 by default
RcHooks ==
  /\ pc = "rc_hooks"
  /\ pre_command' = Has("pre-command")
  /\ pre_iterations' = IntOrDefault("pre-iterations", 1)
  /\ post_command' = Has("post-command")
  /\ post_iterations' = IntOrDefault("post-iterations", 1)
  /\ pc' = "rc_command"
  /\ UNCHANGED <<exc, profile, signal>>
  /\ ConfFrame

\* lines 167-168: command
RcCommand ==
  /\ pc = "rc_command"
  /\ Has("command")
  /\ profile' = Put(profile, "command", PyStr(Get("command")))
  /\ pc' = "rc_extension"
  /\ UNCHANGED <<exc, pre_command, pre_iterations, post_command,
                 post_iterations, signal>>
  /\ ConfFrame

\* lines 167-170: no command: Exception
RcNoCommand ==
  /\ pc = "rc_command"
  /\ ~Has("command")
  /\ pc' = "raised" /\ exc' = "Exception"
  /\ UNCHANGED <<profile, pre_command, pre_iterations, post_command,
                 post_iterations, signal>>
  /\ ConfFrame

\* lines 172-173: extension
RcExtension ==
  /\ pc = "rc_extension"
  /\ Has("extension")
  /\ profile' = Put(profile, "extension", PyStr(Get("extension")))
  /\ pc' = "rc_timeout"
  /\ UNCHANGED <<exc, pre_command, pre_iterations, post_command,
                 post_iterations, signal>>
  /\ ConfFrame

\* lines 172-175: no extension: Exception
RcNoExtension ==
  /\ pc = "rc_extension"
  /\ ~Has("extension")
  /\ pc' = "raised" /\ exc' = "Exception"
  /\ UNCHANGED <<profile, pre_command, pre_iterations, post_command,
                 post_iterations, signal>>
  /\ ConfFrame

\* lines 177-181: self.timeout is the directive's string, or the number 90
TimeoutRead == IF Has("minimize-timeout") THEN PyStr(Get("minimize-timeout")) ELSE PyInt(90)

\* lines 183-184: "auto" is kept, any other string converted
TimeoutConverted(v) == IF v[2] = "auto" THEN v ELSE PyInt(IntOf(v[2]))

\* lines 177-184: self.timeout is a string: .lower() can be called on it
RcTimeout ==
  /\ pc = "rc_timeout"
  /\ IsStr(TimeoutRead)
  /\ profile' = Put(profile, "timeout", TimeoutConverted(TimeoutRead))
  /\ pc' = "rc_rest"
  /\ UNCHANGED <<exc, pre_command, pre_iterations, post_command,
                 post_iterations, signal>>
  /\ ConfFrame

\* lines 177-183: self.timeout is not a string: it has no method lower():
\* AttributeError
RcTimeoutNotStr ==
  /\ pc = "rc_timeout"
  /\ ~IsStr(TimeoutRead)
  /\ profile' = Put(profile, "timeout", TimeoutRead)
  /\ pc' = "raised" /\ exc' = "AttributeError"
  /\ UNCHANGED <<pre_command, pre_iterations, post_command, post_iterations,
                 signal>>
  /\ ConfFrame

\* lines 186-239: the fields left, each with its default; of these the
\* model follows signal and debugging_interface
RcRest ==
  /\ pc = "rc_rest"
  /\ signal' = IntOrDefault("signal", NoSignal)
  /\ profile' = Put(profile, "debugging_interface",
                    IF Has("debugging-interface")
                      THEN PyStr(Get("debugging-interface")) ELSE PyNone)
  /\ pc' = "rc_done"
  /\ UNCHANGED <<exc, pre_command, pre_iterations, post_command,
                 post_iterations>>
  /\ ConfFrame

NextConf ==
  \/ RcOpenFails \/ RcOpen \/ RcHooks
  \/ RcCommand \/ RcNoCommand \/ RcExtension \/ RcNoExtension
  \/ RcTimeout \/ RcTimeoutNotStr \/ RcRest

SpecConf == InitConf /\ [][NextConf]_vars

\* the section that resolves to the fields of a run
RunOpts ==
  LET D == {"command", "extension", "minimize-timeout"}
           \cup (IF pre_command THEN {"pre-command"} ELSE {})
           \cup (IF pre_iterations # 1 THEN {"pre-iterations"} ELSE {})
           \cup (IF post_command THEN {"post-command"} ELSE {})
           \cup (IF post_iterations # 1 THEN {"post-iterations"} ELSE {})
           \cup (IF signal # NoSignal THEN {"signal"} ELSE {})
  IN [d \in D |-> CASE d = "minimize-timeout" -> "30"
                    [] d \in {"pre-iterations", "post-iterations"} -> "2"
                    [] d = "signal" -> "77"
                    [] OTHER -> "set"]

\* the object after its construction from that section
Constructed ==
  /\ config = [file |-> TRUE, section |-> TRUE, opts |-> RunOpts]
  /\ profile = [f \in {"command", "extension", "timeout", "debugging_interface"} |->
                  CASE f = "timeout" -> PyInt(30)
                    [] f = "debugging_interface" -> PyNone
                    [] OTHER -> PyStr("set")]

\* no hook is configured
NoHooks ==
  /\ pre_command = FALSE /\ pre_iterations = 1
  /\ post_command = FALSE /\ post_iterations = 1

\* lines 299-301, 306-308: the byte-diff minimizer runs a configured hook
\* in every trial
ByteHookRuns(command, interval, idx) == command

\* lines 467-470, 478-481: the line minimizer runs a configured hook when
\* the interval divides the index it is given
LineHookRuns(command, interval, idx) == idx % interval = 0 /\ command

\* the finally clause that lets the temp file be when the trial raised
RemovedUnlessRaised(file, raised) == IF raised THEN file ELSE NoFile

\* lines 319-320, 500-501: finally: os.remove(temp_file)
Removed(file, raised) == NoFile


(* ------------------- CGenericMinimizer (byte-diff) --------------------- *)
ByteOracles == {"always", "never", "head1", "nondet"}

\* lines 286-290: buf = bytearray(self.template); buf[pos] = self.crash[pos]
Patched(t, pos, c) == [t EXCEPT ![pos + 1] = c[pos]]

\* a bake-in that writes one offset too far
BakedInNext(t, value, c) == [t EXCEPT ![((value + 1) % Len(t)) + 1] = c[value]]

\* line 332: self.template[value] = self.crash[value]
BakedIn(t, value, c) == [t EXCEPT ![value + 1] = c[value]]

\* line 333: del self.crash[value]
Deleted(c, value) == [pos \in DOMAIN c \ {value} |-> c[pos]]

\* the first disjuncts of the test of lines 310-311: the code is in the
\* signal table, or it is the configured signal
InTable(r) == r \in RETURN_SIGNALS
IsSignal(r) == signal # NoSignal /\ r = signal

\* a pop that takes the first element
PoppedFirst(d) == Tail(d)

\* line 330: self.diff.pop() leaves the list without its last element ...
Popped(d) == SubSeq(d, 1, Len(d) - 1)

\* ... and returns that element
Last(d) == d[Len(d)]

\* how an invocation of main ended
Outcome == <<pc, exc, minimized, hashed>>

\* the state do_try starts from, after minimize() has read the three files
ByteStart(t, d, c, s) ==
  /\ pc = "for" /\ exc = "none"
  /\ template = t /\ diff = d /\ crash = c
  /\ i = 0 /\ n = Len(d) /\ j = 0
  /\ iteration = 0 /\ minimized = FALSE
  /\ buf = <<>> /\ temp_file = NoFile /\ hashed = {}
  /\ start_at = s
  /\ executed = {} /\ seen = {}
  /\ ret = NoRet /\ markers = FALSE /\ pre_ran = {} /\ post_ran = {}

LineIdle ==
  /\ lines = <<>> /\ current_line = 0 /\ loops = 0 /\ total_lines = 0
  /\ last_minimized = NoFile /\ rip = {}

\* what main is given in mode "generic": the three files, the directives
\* of the section but the hooks, NIGHTMARE_ITERATION, and the target
ByteInputs ==
  /\ mode = "generic"
  /\ \E t \in [1..Cardinality(Offsets) -> Bytes],
        cf \in [1..Cardinality(Offsets) -> Bytes],
        dl \in SeqsUpTo(Offsets \cup {-1}, MaxDiff), s \in 0..MaxStart :
       /\ ByteStart(t, ReadDiff(dl), ReadCrash(cf, ReadDiff(dl)), s)
       /\ orig_template = t
       /\ orig_diff = ReadDiff(dl)
       /\ orig_crash = ReadCrash(cf, ReadDiff(dl))
  /\ orig_lines = 0
  /\ signal \in {NoSignal, 77}
  /\ crash_path = NoPath /\ line_per_line = FALSE
  /\ lines_to_rip = 1 /\ lines_percent = 10
  /\ oracle \in ByteOracles
  /\ hit \in {139, 77}
  /\ run = 1 /\ prev = <<"none", "none", FALSE, {}>>
  /\ LineIdle

InitByte == ByteInputs /\ NoHooks /\ Constructed

ByteFrame == UNCHANGED <<cfgvars, envvars, origvars, linevars, start_at, run, prev>>

\* lines 282-283, 325: a trial below start_at is not run, only counted
BSkip ==
  /\ mode = "generic" /\ pc = "for" /\ i < n /\ j < Len(diff)
  /\ ~(start_at <= iteration)
  /\ iteration' = iteration + 1
  /\ j' = j + 1
  /\ UNCHANGED <<pc, exc, template, diff, crash, i, n, minimized, buf,
                 temp_file, hashed, executed, seen,
                 trialvars>>
  /\ ByteFrame

\* lines 285-288: the offset has no crash byte any more: continue, which
\* also passes over iteration += 1
BContinue ==
  /\ mode = "generic" /\ pc = "for" /\ i < n /\ j < Len(diff)
  /\ start_at <= iteration
  /\ diff[j + 1] \notin DOMAIN crash
  /\ buf' = template
  /\ j' = j + 1
  /\ UNCHANGED <<pc, exc, template, diff, crash, i, n, iteration, minimized,
                 temp_file, hashed, executed, seen,
                 trialvars>>
  /\ ByteFrame

\* lines 285-293: the candidate is built and written to the temp file
BCandidate ==
  /\ mode = "generic" /\ pc = "for" /\ i < n /\ j < Len(diff)
  /\ start_at <= iteration
  /\ diff[j + 1] \in DOMAIN crash
  /\ buf' = Patched(template, diff[j + 1], crash)
  /\ temp_file' = buf'
  /\ pc' = "exec"
  /\ UNCHANGED <<exc, template, diff, crash, i, n, j, iteration, minimized,
                 hashed, executed, seen,
                 trialvars>>
  /\ ByteFrame

\* lines 295-320, 322-323, 327-328: the target ends with a code of the
\* signal table: the candidate is copied to <outdir>/<sha1><ext>, the temp
\* file removed, and both loops are left
BCrash ==
  /\ mode = "generic" /\ pc = "exec"
  /\ \E trig \in Triggers(oracle, temp_file) :
       /\ InTable(RetOf(trig))
       /\ seen' = seen \cup {<<RetOf(trig), FALSE>>}
       /\ ret' = RetOf(trig) /\ markers' = FALSE
  /\ pre_ran' = pre_ran \cup
       (IF ByteHookRuns(pre_command, pre_iterations, iteration)
          THEN {iteration} ELSE {})
  /\ post_ran' = post_ran \cup
       (IF ByteHookRuns(post_command, post_iterations, iteration)
          THEN {iteration} ELSE {})
  /\ executed' = executed \cup {iteration}
  /\ hashed' = hashed \cup {temp_file}
  /\ minimized' = TRUE
  /\ temp_file' = Removed(temp_file, FALSE)
  /\ pc' = "done"
  /\ UNCHANGED <<exc, template, diff, crash, i, n, j, iteration, buf>>
  /\ ByteFrame

\* lines 310-312, 319-320: the code is the configured signal and not in the
\* table: RETURN_SIGNALS[ret] of the log line raises KeyError; the finally
\* clause removes the temp file
BKeyError ==
  /\ mode = "generic" /\ pc = "exec"
  /\ \E trig \in Triggers(oracle, temp_file) :
       /\ ~InTable(RetOf(trig)) /\ IsSignal(RetOf(trig))
       /\ seen' = seen \cup {<<RetOf(trig), FALSE>>}
       /\ ret' = RetOf(trig) /\ markers' = FALSE
  /\ pre_ran' = pre_ran \cup
       (IF ByteHookRuns(pre_command, pre_iterations, iteration)
          THEN {iteration} ELSE {})
  /\ post_ran' = post_ran \cup
       (IF ByteHookRuns(post_command, post_iterations, iteration)
          THEN {iteration} ELSE {})
  /\ executed' = executed \cup {iteration}
  /\ temp_file' = Removed(temp_file, TRUE)
  /\ pc' = "raised" /\ exc' = "KeyError"
  /\ UNCHANGED <<template, diff, crash, i, n, j, iteration, minimized, buf,
                 hashed>>
  /\ ByteFrame

\* lines 310-311, 319-320: any other code: the test goes on to
\* self.crash_file_exists(), which CGenericMinimizer does not define:
\* AttributeError; the finally clause removes the temp file
BAttributeError ==
  /\ mode = "generic" /\ pc = "exec"
  /\ \E trig \in Triggers(oracle, temp_file) :
       /\ ~InTable(RetOf(trig)) /\ ~IsSignal(RetOf(trig))
       /\ seen' = seen \cup {<<RetOf(trig), FALSE>>}
       /\ ret' = RetOf(trig) /\ markers' = FALSE
  /\ pre_ran' = pre_ran \cup
       (IF ByteHookRuns(pre_command, pre_iterations, iteration)
          THEN {iteration} ELSE {})
  /\ post_ran' = post_ran \cup
       (IF ByteHookRuns(post_command, post_iterations, iteration)
          THEN {iteration} ELSE {})
  /\ executed' = executed \cup {iteration}
  /\ temp_file' = Removed(temp_file, TRUE)
  /\ pc' = "raised" /\ exc' = "AttributeError"
  /\ UNCHANGED <<template, diff, crash, i, n, j, iteration, minimized, buf,
                 hashed>>
  /\ ByteFrame

\* lines 327-333: the inner pass is over without a crash: the last offset
\* of diff is popped and, if it still has a crash byte, baked in
BEndRound ==
  /\ mode = "generic" /\ pc = "for" /\ i < n /\ j = Len(diff)
  /\ LET value == Last(diff) IN
       /\ diff' = Popped(diff)
       /\ IF value \in DOMAIN crash
            THEN /\ template' = BakedIn(template, value, crash)
                 /\ crash' = Deleted(crash, value)
            ELSE UNCHANGED <<template, crash>>
  /\ i' = i + 1
  /\ j' = 0
  /\ UNCHANGED <<pc, exc, n, iteration, minimized, buf, temp_file, hashed,
                 executed, seen,
                 trialvars>>
  /\ ByteFrame

\* lines 281, 335-336: the rounds are over: "Sorry, could not minimize"
BExhausted ==
  /\ mode = "generic" /\ pc = "for" /\ i = n
  /\ pc' = "done"
  /\ UNCHANGED <<exc, template, diff, crash, i, n, j, iteration, minimized,
                 buf, temp_file, hashed, executed, seen,
                 trialvars>>
  /\ ByteFrame

\* main is invoked again on the same files without NIGHTMARE_ITERATION,
\* into an empty output directory
Rerun ==
  /\ mode = "generic" /\ run = 1 /\ pc \in {"done", "raised"}
  /\ run' = 2
  /\ prev' = Outcome
  /\ pc' = "for" /\ exc' = "none"
  /\ template' = orig_template /\ diff' = orig_diff /\ crash' = orig_crash
  /\ i' = 0 /\ n' = Len(orig_diff) /\ j' = 0
  /\ iteration' = 0 /\ minimized' = FALSE
  /\ buf' = <<>> /\ temp_file' = NoFile /\ hashed' = {}
  /\ start_at' = 0
  /\ executed' = {} /\ seen' = {}
  /\ ret' = NoRet /\ markers' = FALSE /\ pre_ran' = {} /\ post_ran' = {}
  /\ UNCHANGED <<cfgvars, envvars, origvars, linevars>>

NextByte ==
  \/ BSkip \/ BContinue \/ BCandidate
  \/ BCrash \/ BKeyError \/ BAttributeError
  \/ BEndRound \/ BExhausted \/ Rerun

SpecByte == InitByte /\ [][NextByte]_vars

(* --------------------- CLineMinimizer (line-span) ---------------------- *)
LineOracles == {"always", "never", "has1", "has12", "nondet"}
Percents == {10, 100}

\* the files given to the line minimizer: up to MaxLines lines, each one
\* content byte and a newline or a blank line, the last newline possibly
\* missing
LineShapes == {<<b, NL>> : b \in LineBytes} \cup {<<NL>>}
FullFiles == {Join(ls) : ls \in SeqsUpTo(LineShapes, MaxLines)}
LineFiles == FullFiles \cup {SubSeq(f, 1, Len(f) - 1) : f \in FullFiles \ {<<>>}}

\* Python 2 orders a list after every number: list > int is True whatever
\* the list holds
PyListGreaterThanInt(listing, k) == TRUE

\* CLineMinimizer.crash_file_exists: os.listdir(self.crash_path) > 0
crash_file_exists(listing) ==
  IF crash_path # NoPath THEN PyListGreaterThanInt(listing, 0) ELSE FALSE

\* os.listdir(self.crash_path) after the run of the target
Listing(trig) == IF MarkersOf(trig) THEN {"marker"} ELSE {}

\* the test of lines 483-484
LineCrashed(trig) ==
  \/ InTable(RetOf(trig))
  \/ IsSignal(RetOf(trig))
  \/ crash_file_exists(Listing(trig))

\* lines 439-453: the values lines_to_rip can take in a trial
RipChoices ==
  IF loops = 0 /\ ~line_per_line
    THEN LET v == ((total_lines - current_line) * lines_percent) \div 100
             val == IF v = 0 THEN 1 ELSE v
         IN 1..val
    ELSE {lines_to_rip}

\* a slice that starts one line early and so keeps one of the lines to rip
CandidateKeepsOne(l, c, k) ==
  SubSeq(l, 1, c) \o SubSeq(l, c + (IF k > 0 THEN k ELSE 1), Len(l))

\* slices that overlap: the line at the cursor is in both
CandidateOverlap(l, c, k) == SubSeq(l, 1, c + 1) \o SubSeq(l, c + 1, Len(l))

\* a slice that drops every line from the cursor on
CandidateFromCursorOn(l, c, k) == SubSeq(l, 1, c)

\* line 455: lines[:current_line] + lines[current_line+lines_to_rip:]
Candidate(l, c, k) == SubSeq(l, 1, c) \o SubSeq(l, c + k + 1, Len(l))

\* a checkpoint that holds the first line only
CheckpointFirstLine(t) == IF t = <<>> THEN <<>> ELSE Head(t)

\* lines 487-494: the content written to last_minimized<ext>
Checkpoint(t) == Join(t)

\* a cursor that stays where it is
NotAdvanced(c) == c

\* line 497: current_line += 1
Advanced(c) == c + 1

\* a convergence test that also holds when the loop shortened the buffer
ConvergedOrShorter(len, total) == len <= total

\* line 505: len(self.template) == total_lines
Converged(len, total) == len = total

ByteIdle ==
  /\ diff = <<>> /\ crash = <<>> /\ j = 0 /\ buf = <<>>
  /\ run = 1 /\ prev = <<"none", "none", FALSE, {}>>
  /\ orig_diff = <<>> /\ orig_crash = <<>>

\* the state do_try starts from, after minimize() has read the file
LineStart(l) ==
  /\ mode = "line"
  /\ pc = "while" /\ exc = "none"
  /\ template = l /\ orig_template = l /\ orig_lines = Len(l)
  /\ i = 0 /\ n = 0 /\ iteration = 0 /\ minimized = FALSE
  /\ temp_file = NoFile /\ hashed = {}
  /\ executed = {} /\ seen = {}
  /\ ret = NoRet /\ markers = FALSE /\ pre_ran = {} /\ post_ran = {}
  /\ LineIdle /\ ByteIdle

\* what main is given in mode "line": the file, the directives of the
\* section but the hooks, NIGHTMARE_ITERATION, and the target
LineInputs ==
  /\ \E f \in LineFiles : LineStart(ReadTemplate(f))
  /\ start_at \in 0..1
  /\ signal \in {NoSignal, 77}
  /\ crash_path \in {NoPath, SomePath}
  /\ line_per_line \in BOOLEAN
  /\ lines_to_rip \in 1..MaxRip
  /\ lines_percent \in Percents
  /\ oracle \in LineOracles
  /\ hit \in {139, 77}

InitLine == LineInputs /\ NoHooks /\ Constructed

LineFrame == UNCHANGED <<cfgvars, envvars, origvars, bytevars, start_at, exc>>

\* lines 423-427: an outer loop starts
LStartLoop ==
  /\ mode = "line" /\ pc = "while"
  /\ minimized' = FALSE
  /\ total_lines' = Len(template)
  /\ current_line' = 0
  /\ i' = 0 /\ n' = Len(template)
  /\ pc' = "for"
  /\ UNCHANGED <<template, iteration, temp_file, hashed, executed, seen, trialvars,
                 lines, loops, last_minimized, rip>>
  /\ LineFrame

\* lines 429-437: the cursor is past the end of the buffer: break
LBreak ==
  /\ mode = "line" /\ pc = "for" /\ i < n
  /\ current_line >= Len(template)
  /\ iteration' = iteration + 1
  /\ lines' = template
  /\ pc' = "after"
  /\ UNCHANGED <<template, i, n, minimized, temp_file, hashed, executed, seen, trialvars,
                 current_line, loops, total_lines, last_minimized, rip>>
  /\ LineFrame

\* line 429: range(len(self.template)) is used up
LForEnd ==
  /\ mode = "line" /\ pc = "for" /\ i = n
  /\ pc' = "after"
  /\ UNCHANGED <<template, i, n, iteration, minimized, temp_file, hashed,
                 executed, seen, trialvars, lines, current_line, loops, total_lines,
                 last_minimized, rip>>
  /\ LineFrame

\* lines 429-459: the candidate of a trial is built and written to the
\* temp file
LCandidate ==
  /\ mode = "line" /\ pc = "for" /\ i < n
  /\ current_line < Len(template)
  /\ iteration' = iteration + 1
  /\ \E k \in RipChoices :
       /\ rip' = rip \cup {k}
       /\ lines' = Candidate(template, current_line, k)
  /\ temp_file' = Join(lines')
  /\ pc' = "exec"
  /\ UNCHANGED <<template, i, n, minimized, hashed, executed, seen, trialvars,
                 current_line, loops, total_lines, last_minimized>>
  /\ LineFrame

\* lines 461-495, 499-501: the trial crashed: the candidate becomes the
\* buffer and is written to last_minimized<ext>; the cursor stays
LAccept ==
  /\ mode = "line" /\ pc = "exec"
  /\ \E trig \in Triggers(oracle, temp_file) :
       /\ LineCrashed(trig)
       /\ seen' = seen \cup {<<RetOf(trig), MarkersOf(trig)>>}
       /\ ret' = RetOf(trig) /\ markers' = MarkersOf(trig)
  /\ pre_ran' = pre_ran \cup
       (IF LineHookRuns(pre_command, pre_iterations, i)
          THEN {iteration - 1} ELSE {})
  /\ post_ran' = post_ran \cup
       (IF LineHookRuns(post_command, post_iterations, i)
          THEN {iteration - 1} ELSE {})
  /\ executed' = executed \cup {iteration - 1}
  /\ template' = lines
  /\ last_minimized' = Checkpoint(template')
  /\ temp_file' = Removed(temp_file, FALSE)
  /\ i' = i + 1
  /\ pc' = "for"
  /\ UNCHANGED <<n, iteration, minimized, hashed, lines, current_line, loops,
                 total_lines, rip>>
  /\ LineFrame

\* lines 461-484, 496-501: the trial did not crash: the cursor advances
LReject ==
  /\ mode = "line" /\ pc = "exec"
  /\ \E trig \in Triggers(oracle, temp_file) :
       /\ ~LineCrashed(trig)
       /\ seen' = seen \cup {<<RetOf(trig), MarkersOf(trig)>>}
       /\ ret' = RetOf(trig) /\ markers' = MarkersOf(trig)
  /\ pre_ran' = pre_ran \cup
       (IF LineHookRuns(pre_command, pre_iterations, i)
          THEN {iteration - 1} ELSE {})
  /\ post_ran' = post_ran \cup
       (IF LineHookRuns(post_command, post_iterations, i)
          THEN {iteration - 1} ELSE {})
  /\ executed' = executed \cup {iteration - 1}
  /\ current_line' = Advanced(current_line)
  /\ temp_file' = Removed(temp_file, FALSE)
  /\ i' = i + 1
  /\ pc' = "for"
  /\ UNCHANGED <<template, n, iteration, minimized, hashed, lines, loops,
                 total_lines, last_minimized, rip>>
  /\ LineFrame

\* lines 503-505: the loop shortened the buffer: another loop
LNextLoop ==
  /\ mode = "line" /\ pc = "after"
  /\ ~Converged(Len(template), total_lines)
  /\ loops' = loops + 1
  /\ pc' = "while"
  /\ UNCHANGED <<template, i, n, iteration, minimized, temp_file, hashed,
                 executed, seen, trialvars, lines, current_line, total_lines,
                 last_minimized, rip>>
  /\ LineFrame

\* lines 503-514: the loop removed nothing: the buffer is written to
\* <outdir>/<sha1><ext> and the run ends
LConverged ==
  /\ mode = "line" /\ pc = "after"
  /\ Converged(Len(template), total_lines)
  /\ loops' = loops + 1
  /\ hashed' = hashed \cup {Join(template)}
  /\ minimized' = TRUE
  /\ pc' = "done"
  /\ UNCHANGED <<template, i, n, iteration, temp_file, executed, seen, trialvars, lines,
                 current_line, total_lines, last_minimized, rip>>
  /\ LineFrame

NextLine ==
  \/ LStartLoop \/ LBreak \/ LForEnd \/ LCandidate
  \/ LAccept \/ LReject \/ LNextLoop \/ LConverged

SpecLine == InitLine /\ [][NextLine]_vars

\* the process keeps running: a step that can be taken is taken
FairLine == SpecLine /\ WF_vars(NextLine)

(* ----------- the line minimizer under its default settings ------------- *)
\* m lines that are all the same but the one at index r (from 0), the only
\* line the target needs to crash
OneRequired(m, r) == [x \in 1..m |-> IF x = r + 1 THEN <<1, NL>> ELSE <<2, NL>>]

\* lines 346-371: the defaults of the directives (line-per-line off,
\* lines-to-rip 1, lines-percent 10, no crash-path), no signal directive
InitDefault ==
  /\ \E m \in 1..MaxDefaultLines, r \in 0..(MaxDefaultLines - 1) :
       /\ r < m
       /\ LineStart(OneRequired(m, r))
  /\ start_at = 0
  /\ signal = NoSignal
  /\ crash_path = NoPath
  /\ line_per_line = FALSE
  /\ lines_to_rip = 1
  /\ lines_percent = 10
  /\ oracle = "has1"
  /\ hit = 139
  /\ NoHooks /\ Constructed

SpecDefault == InitDefault /\ [][NextLine]_vars

\* the process keeps running: a step that can be taken is taken
FairDefault == SpecDefault /\ WF_vars(NextLine)

(* ------------------------ main, either mode --------------------------- *)
\* lines 517-526: main builds the minimizer of the mode and calls minimize
InitMain == InitByte \/ InitLine

NextMain == NextByte \/ NextLine

SpecMain == InitMain /\ [][NextMain]_vars

(* --------------------- runs with hooks configured ---------------------- *)
\* the intervals a hook can have in these runs
Intervals == {1, 2}

\* either mode, a target that crashes or not as it likes, signal 77
\* configured, no crash-path, the default lines-to-rip, a first loop that
\* may cut up to the whole file, a run from the start or resumed at 1 or
\* 2; any pre-command / post-command and any interval for each
InitHooks ==
  /\ ByteInputs \/ LineInputs
  /\ oracle = "nondet" /\ signal = 77 /\ start_at <= 2
  /\ crash_path = NoPath /\ lines_to_rip = 1
  /\ mode = "line" => lines_percent = 100
  /\ pre_command \in BOOLEAN /\ pre_iterations \in Intervals
  /\ post_command \in BOOLEAN /\ post_iterations \in Intervals
  /\ Constructed

SpecHooks == InitHooks /\ [][NextMain]_vars

(* ------------------------------ claims --------------------------------- *)
\* The Crash Oracle's report of one run of the target, <<code, markers
\* left>>: crashed when the code is in the signal table or is the
\* configured signal, or when the detector left markers in the crash-path.
Reported(o) == InTable(o[1]) \/ IsSignal(o[1]) \/ o[2]
AlwaysCrashed == seen # {} /\ \A o \in seen : Reported(o)
NeverCrashed == \A o \in seen : ~Reported(o)
Ended == pc \in {"done", "raised"}
Distinct(d) == \A x, y \in DOMAIN d : x # y => d[x] # d[y]

\* b has the original template's byte at every offset outside the loaded diff
SameOutsideDiff(b) ==
  \A o \in Offsets \ Range(orig_diff) : b[o + 1] = orig_template[o + 1]

\* C1: in every state of a byte-diff run the Template Buffer, the candidate
\* buffer, the candidate file handed to the target and every persisted file
\* equal the original template at every offset that is not in the loaded
\* diff.
C1_FrameOutsideDiff ==
  /\ SameOutsideDiff(template)
  /\ (buf # <<>> => SameOutsideDiff(buf))
  /\ (temp_file # NoFile => SameOutsideDiff(temp_file))
  /\ \A f \in hashed : SameOutsideDiff(f)

\* C1 witness: offsets were baked into the template, a later candidate was
\* persisted, and some offset lies outside diff
C1_Witness ==
  /\ pc = "done" /\ hashed # {}
  /\ template # orig_template
  /\ \E f \in hashed : f # orig_template /\ f # template
  /\ Offsets \ Range(orig_diff) # {}

\* C2: with a deterministic oracle, the invocation with start_at = 0 ends as
\* the invocation with start_at = k on the same files ended: the same
\* terminal state with the same persisted buffer.
C2_ResumeSameAnswer ==
  (run = 2 /\ Ended /\ Deterministic) => Outcome = prev

\* C3: no trial of the line minimizer whose iteration index is below
\* start_at runs the target.
C3_LineSkipsBelowStart == \A t \in executed : t >= start_at

\* C4: when no run of the target is reported as a crash, the byte-diff
\* minimizer started at 0 on distinct offsets raises nothing and ends
\* Exhausted: diff is empty, every offset was baked in, no file is written.
C4_NoCrashExhausts ==
  (start_at = 0 /\ Distinct(orig_diff) /\ NeverCrashed) =>
    /\ pc # "raised"
    /\ pc = "done" =>
         /\ ~minimized /\ diff = <<>> /\ hashed = {}
         /\ i = Len(orig_diff)

\* C5 (as stated): when every run of the target is reported as a crash, the
\* line minimizer on a non-empty input ends after exactly one outer loop
\* with an empty Line Buffer.
C5_OneLoopOnAllCrashed ==
  (pc = "done" /\ AlwaysCrashed /\ orig_lines >= 1) =>
    (loops = 1 /\ template = <<>>)

\* C5 (amended): when every run of the target is reported as a crash and
\* every trial rips at least one line, the line minimizer on a non-empty
\* input ends after exactly two outer loops with an empty Line Buffer: the
\* first loop empties the buffer in at most one trial per line, the second
\* starts on the empty buffer, makes no trial and finds the fixed point.
C5_TwoLoopsOnAllCrashed ==
  (pc = "done" /\ AlwaysCrashed /\ orig_lines >= 1 /\ 0 \notin rip) =>
    /\ loops = 2 /\ template = <<>> /\ total_lines = 0
    /\ Cardinality(executed) <= orig_lines
    /\ last_minimized = <<>> /\ hashed = {<<>>}

\* C5 witness: a run of two lines or more, every trial a crash, has ended
C5_Witness ==
  /\ pc = "done" /\ AlwaysCrashed /\ orig_lines >= 2 /\ 0 \notin rip
  /\ loops = 2 /\ template = <<>>

\* what the Crash Oracle reports for a file
ReportsCrashOn(f) ==
  \E trig \in Triggers(oracle, f) : Reported(<<RetOf(trig), MarkersOf(trig)>>)

\* C6: when the line minimizer ends (deterministic oracle, lines-to-rip 1),
\* the oracle reports no crash for the final Line Buffer with any one of
\* its lines removed.
C6_LocallyMinimal ==
  (pc = "done" /\ Deterministic /\ lines_to_rip = 1) =>
    \A c \in 0..(Len(template) - 1) :
      ~ReportsCrashOn(Join(Candidate(template, c, 1)))

C8_NoCrashUnchanged ==
  (pc = "done" /\ NeverCrashed) =>
    /\ loops = 1
    /\ Cardinality(executed) = orig_lines /\ current_line = orig_lines
    /\ template = orig_template
    /\ last_minimized = NoFile
    /\ hashed = {Join(orig_template)}

\* C9: when every run of the target is reported as a crash, the byte-diff
\* minimizer started at 0 on a non-empty diff ends at its first trial: one
\* run of the target, and the persisted file is the original template with
\* the first diff offset overwritten by its crash byte.
C9_FirstTrialWins ==
  (Ended /\ start_at = 0 /\ orig_diff # <<>> /\ AlwaysCrashed) =>
    /\ pc = "done" /\ minimized
    /\ executed = {0}
    /\ hashed = {Patched(orig_template, orig_diff[1], orig_crash)}

\* C10: under the default settings, on an input in which exactly one line
\* is required, the line minimizer ends, whatever the random cuts, and ends
\* with the required line alone in the Line Buffer and in the final
\* artifact.
C10_OnlyRequiredLineLeft ==
  /\ <>(pc = "done")
  /\ [](pc = "done" =>
          /\ template = <<<<1, NL>>>>
          /\ hashed = {<<1, NL>>})

\* C10 witness: a run on twenty lines or more with a cut of several lines
\* has ended with the required line alone
C10_Witness ==
  /\ pc = "done" /\ orig_lines >= 20
  /\ \E k \in rip : k >= 2
  /\ template = <<<<1, NL>>>>

\* the file has the section, and the section has command and extension
HasRequired ==
  config.file /\ config.section /\ Has("command") /\ Has("extension")

\* C11: read_configuration on a section that has command and extension
\* raises nothing, whatever other directives are left out, and every
\* directive left out resolves to its default (a timeout left out to 90);
\* it raises only when the file, the section, command or extension is
\* missing.
C11_ResolvesWithDefaults ==
  /\ HasRequired => pc # "raised"
  /\ pc = "raised" => ~HasRequired
  /\ (pc = "rc_done" /\ HasRequired) =>
       /\ ~Has("minimize-timeout") =>
            (profile["timeout"][1] = "int" /\ profile["timeout"][2] = 90)
       /\ ~Has("pre-command") => ~pre_command
       /\ ~Has("pre-iterations") => pre_iterations = 1
       /\ ~Has("post-command") => ~post_command
       /\ ~Has("post-iterations") => post_iterations = 1
       /\ ~Has("signal") => signal = NoSignal
       /\ ~Has("debugging-interface") => profile["debugging_interface"] = PyNone

\* a step that ends a trial of the line minimizer
LineTrialEnds == mode = "line" /\ pc = "exec" /\ pc' = "for"

\* the trial's end took the candidate / discarded it
Accepted ==
  /\ template' = lines /\ last_minimized' = Join(lines)
  /\ current_line' = current_line
Discarded == template' = template /\ current_line' = current_line + 1

\* C12: a trial of the line minimizer whose termination code is neither in
\* the signal table nor the configured signal is taken as a crash exactly
\* when a crash-path is configured and holds marker files after the run;
\* with a configured crash-path that is empty the candidate is discarded
\* and the cursor advances.
C12_MarkersDecide ==
  [][(LineTrialEnds /\ ~InTable(ret') /\ ~IsSignal(ret')) =>
       /\ Accepted <=> (crash_path # NoPath /\ markers')
       /\ (crash_path # NoPath /\ ~markers') => Discarded]_vars

\* the last run of the target ended with the configured signal, a code
\* that the signal table does not hold
EndedWithSignalOnly == ret # NoRet /\ IsSignal(ret) /\ ~InTable(ret)

\* the line minimizer has accepted the candidate of its last trial
LastCandidateAccepted == template = lines /\ last_minimized = Join(lines)

\* C13: a trial whose termination code is the configured signal is a crash
\* also when the signal table does not hold the code: the byte-diff
\* minimizer ends Minimized with the candidate persisted, the line
\* minimizer accepts the deletion and checkpoints it.
C13_SignalIsCrash ==
  EndedWithSignalOnly =>
    /\ (mode = "generic" /\ Ended) =>
         (pc = "done" /\ minimized /\ buf \in hashed)
    /\ (mode = "line" /\ pc = "for") => LastCandidateAccepted

\* C14: the candidate temp file of a trial exists only while the trial runs
\* the target: at every trial boundary and when the run has ended, with a
\* crash found, without one, or with an exception raised by the verdict's
\* evaluation, there is no temp file (either minimizer).
C14_TempFileRemoved ==
  /\ pc # "exec" => temp_file = NoFile
  /\ pc = "exec" => temp_file # NoFile

\* C14 witness: a trial of the byte-diff minimizer wrote its candidate, ran
\* the target, and the evaluation of the verdict raised
C14_Witness ==
  /\ mode = "generic" /\ pc = "raised" /\ exc # "none"
  /\ executed # {} /\ buf # <<>>
  /\ temp_file = NoFile

\* an inner pass of the byte-diff minimizer is over and no trial crashed
PassEnded == mode = "generic" /\ pc = "for" /\ i < n /\ j = Len(diff)

C16_DiffMatchesCrashMap ==
  mode = "generic" => (Distinct(diff) /\ DOMAIN crash = Range(diff))

\* the verdict the line minimizer computes from a run's code and markers
VerdictCrashed(r, m) ==
  InTable(r) \/ IsSignal(r) \/ crash_file_exists(IF m THEN {"marker"} ELSE {})

\* the line list l without its lines [c, c + k)
WithoutSpan(l, c, k) ==
  LET cut == IF c + k <= Len(l) THEN k ELSE Len(l) - c
  IN [x \in 1..(Len(l) - cut) |-> IF x <= c THEN l[x] ELSE l[x + cut]]

C18_CheckpointIsBuffer ==
  (mode = "line" /\ last_minimized # NoFile) =>
    /\ pc # "exec" => last_minimized = Join(template)
    /\ pc = "done" => hashed = {last_minimized}

\* C18 witness: a run on three lines has ended with the middle line alone
\* in the buffer, in the checkpoint and in the final artifact
C18_Witness ==
  /\ mode = "line" /\ pc = "done" /\ orig_lines = 3
  /\ template = <<orig_template[2]>>
  /\ last_minimized = orig_template[2]
  /\ hashed = {last_minimized}

\* C19: in every trial that runs the target, a configured pre_command runs
\* exactly when the trial's iteration index modulo pre_iterations is 0, and
\* a configured post_command exactly when the index modulo post_iterations
\* is 0; a hook that is not configured never runs (either minimizer).
C19_HooksGatedByIteration ==
  \A t \in executed :
    /\ t \in pre_ran <=> (pre_command /\ t % pre_iterations = 0)
    /\ t \in post_ran <=> (post_command /\ t % post_iterations = 0)

\* C20: with at least one line ripped per trial the line minimizer ends,
\* whatever the target does: an inner loop makes at most total_lines trials
\* and is left with the cursor at or past the end of the buffer, an outer
\* loop that does not end the run has shortened the buffer, and an input of
\* n lines takes at most n + 1 outer loops.
C20_LineTerminates ==
  /\ <>(pc = "done")
  /\ [](/\ i <= total_lines
        /\ pc = "after" => current_line >= Len(template)
        /\ (pc = "while" /\ loops >= 1) => Len(template) < total_lines
        /\ loops <= orig_lines + 1)

\* C20 witness: a target that crashes or not as it likes let every loop
\* but the last remove one line of three: the run has ended in its fourth
\* loop
C20_Witness ==
  /\ mode = "line" /\ pc = "done" /\ oracle = "nondet"
  /\ orig_lines = 3 /\ loops = 4 /\ template = <<>>

============================================================================
